---- MODULE Spec2Model ----
(***************************************************************************)
(* Q15 fixed-point AXPY benchmark (q15_axpy_challenge.c).                  *)
(*                                                                         *)
(*   y[i] = sat_q15(a[i] + ((alpha * b[i]) >> 15))                         *)
(*                                                                         *)
(* The module models the kernel (saturate_q15, q15_axpy_baseline,          *)
(* q15_axpy_vector), the verification loop (verify_identical), the cycle   *)
(* counter (rdcycle64) and the benchmark driver (main).  C array indices   *)
(* are 0-based; buffers are TLA+ sequences, so C's x[i] is mem[x][i + 1].  *)
(*                                                                         *)
(* TLC's integers are 32-bit two's complement, the width of int32_t, and   *)
(* an overflow stops the evaluation with an error instead of wrapping.     *)
(***************************************************************************)
EXTENDS Integers, Sequences, FiniteSets, TLC

\* ------------------------------------------------------------------ bounds

\* Largest element count n of the kernel and verification specifications.
MaxN == 3

\* Element count of the benchmark run (test_size is 4096 in the source).
BenchSize == 2

\* Half-width of the windows of 32-bit inputs handed to saturate_q15.
SatSpan == 4

\* --------------------------------------------------------------- constants

Q15_MIN == -32768

Q15_MAX == 32767

\* main's alpha: 0.5 in Q15.
ALPHA == 16384

INT32_MAX == 2147483647

INT32_MIN == (-2147483647) - 1

\* Content of a cell of an allocated buffer that was never written: outside
\* the int16_t range, so that no stored element equals it.
Indeterminate == 65536 + 65536

\* The four buffers of main, in allocation order (lines 73-76).
Buffers == <<"a", "b", "baseline_out", "vector_out">>

BufferNames == {Buffers[k] : k \in 1..4}

\* --------------------------------------------------------- integer helpers

\* Conversion to int16_t: the value modulo 2^16, read as two's complement.
ToInt16(x) ==
    LET u == x % 65536
    IN  IF u >= 32768 THEN u - 65536 ELSE u

\* Conversion of a product to the width of its destination; at 32 bits
\* every value TLC can hold is already an int32_t.
ToWidth(x, bits) ==
    IF bits >= 32 THEN x
    ELSE LET m == 2 ^ (bits - 1)
         IN  ((x + m) % (2 * m)) - m

\* int32_t product = (int32_t)alpha * b[i];
MulNarrow(alpha_, bi) == ToWidth(alpha_ * bi, 16)

Mul32(alpha_, bi) == ToWidth(alpha_ * bi, 32)

\* x >> k on a signed 32-bit x, as the compiler implements it: the sign bit
\* is propagated, i.e. ~((~x) >> k) for a negative x, with ~x = -(x + 1).
AsrTrunc(x, k) ==
    IF x >= 0 THEN x \div (2 ^ k) ELSE -((-x) \div (2 ^ k))

Asr(x, k) ==
    IF x >= 0 THEN x \div (2 ^ k)
    ELSE -((-(x + 1)) \div (2 ^ k)) - 1

\* ------------------------------------------------------------ saturate_q15

saturate_q15_nolow(value_) ==
    IF value_ > Q15_MAX THEN Q15_MAX
    ELSE ToInt16(value_)

saturate_q15(value_) ==
    IF value_ > Q15_MAX THEN Q15_MAX
    ELSE IF value_ < Q15_MIN THEN Q15_MIN
    ELSE ToInt16(value_)

\* One iteration of the loop body of q15_axpy_baseline (lines 27-30): the
\* three locals and the element stored to y[i].
AxpyBody(ai, bi, alpha_) ==
    LET product == Mul32(alpha_, bi)
        scaled  == Asr(product, 15)
        sum     == ai + scaled
    IN  [product |-> product, scaled |-> scaled, sum |-> sum,
         out |-> saturate_q15(sum)]

\* ---------------------------------------------------------------- the state

VARIABLES
    pc,               \* main's position: "L<line>", or "exited"
    call,             \* active callees, innermost first
    heap,             \* buffer -> "none" | "null" | "live" | "freed"
    mem,              \* buffer -> contents (<<>> for a null pointer)
    has_counter,      \* the build has the rdcycle instruction (line 57)
    cycle,            \* the hardware cycle counter
    test_size,        \* main's test_size
    alpha,            \* main's alpha
    gi,               \* main's loop index i (lines 86-90)
    start,            \* main's start
    baseline_cycles,  \* main's baseline_cycles
    vector_cycles,    \* main's vector_cycles
    verified,         \* main's verified (-1: not yet assigned)
    vec,              \* frame of q15_axpy_vector: a, b, y, n, alpha
    axpy,             \* frame of q15_axpy_baseline: parameters and locals
    vfy,              \* frame of verify_identical: ref, test, n, i
    mismatch,         \* the "Mismatch at index" lines printed
    alloc_msg,        \* "Memory allocation failed" was printed
    speedup,          \* the division of line 118
    verdict,          \* the "Verification:" line printed
    exit_code,        \* main's return value (-1: still running)
    value,            \* argument of a direct call of saturate_q15
    sat_ret           \* its return value

vars == <<pc, call, heap, mem, has_counter, cycle, test_size, alpha, gi,
          start, baseline_cycles, vector_cycles, verified, vec, axpy, vfy,
          mismatch, alloc_msg, speedup, verdict, exit_code, value, sat_ret>>

timing == <<has_counter, cycle, start, baseline_cycles, vector_cycles>>

frames == <<vec, axpy, vfy>>

output == <<mismatch, alloc_msg, speedup, verdict, exit_code>>

sat == <<value, sat_ret>>

NoArgs == [a |-> "a", b |-> "b", y |-> "baseline_out", n |-> 0, alpha |-> 0]

NoAxpy == [a |-> "a", b |-> "b", y |-> "baseline_out", n |-> 0, alpha |-> 0,
           i |-> 0, product |-> 0, scaled |-> 0, sum |-> 0]

NoVfy == [ref |-> "baseline_out", test |-> "vector_out", n |-> 0, i |-> 0]

NoSpeedup == [performed |-> FALSE, dividend |-> 0, divisor |-> 0]

Fresh(n_) == [j \in 1..n_ |-> Indeterminate]

\* What every specification starts from, but for the fields it draws.
Quiet ==
    /\ gi = 0
    /\ start = 0
    /\ baseline_cycles = 0
    /\ vector_cycles = 0
    /\ verified = -1
    /\ vec = NoArgs
    /\ axpy = NoAxpy
    /\ vfy = NoVfy
    /\ mismatch = <<>>
    /\ alloc_msg = FALSE
    /\ speedup = NoSpeedup
    /\ verdict = ""
    /\ exit_code = -1
    /\ sat_ret = 0

Idle ==
    /\ Quiet
    /\ call = <<>>
    /\ value = 0

\* -------------------------------------------------------------------- main

\* Raw results of rand() the model draws from.
RandOut == {0, 32768, 65535, 2147483647}

\* Advances of the cycle counter between two reads.
Ticks == {1, 2}

\* (int16_t)((rand() % 65536u) - 32768)
RandToQ15(r) == ToInt16((r % 65536) - 32768)

Init ==
    /\ Idle
    /\ pc = "L73"
    /\ heap = [x \in BufferNames |-> "none"]
    /\ mem = [x \in BufferNames |-> <<>>]
    /\ has_counter \in BOOLEAN
    /\ cycle = 0
    /\ test_size = BenchSize
    /\ alpha = ALPHA

AllocLine == <<"L73", "L74", "L75", "L76", "L78">>

\* lines 73-76: one aligned_alloc, which may return a null pointer.
Alloc ==
    /\ call = <<>>
    /\ \E k \in 1..4 :
         /\ pc = AllocLine[k]
         /\ \E ok \in BOOLEAN :
              /\ heap' = [heap EXCEPT ![Buffers[k]] =
                              IF ok THEN "live" ELSE "null"]
              /\ mem' = [mem EXCEPT ![Buffers[k]] =
                              IF ok THEN Fresh(test_size) ELSE <<>>]
         /\ pc' = AllocLine[k + 1]
    /\ UNCHANGED <<call, test_size, alpha, gi, verified, timing, frames,
                   output, sat>>

AllocFailedLoose ==
    \E x \in BufferNames \ {"vector_out"} : heap[x] = "null"

\* !a || !b || !baseline_out || !vector_out
AllocFailed == \E x \in BufferNames : heap[x] = "null"

\* lines 78-82
AllocCheck ==
    /\ call = <<>>
    /\ pc = "L78"
    /\ IF AllocFailed
       THEN /\ alloc_msg' = TRUE
            /\ exit_code' = 1
            /\ pc' = "exited"
       ELSE /\ pc' = "L85"
            /\ UNCHANGED <<alloc_msg, exit_code>>
    /\ UNCHANGED <<call, heap, mem, test_size, alpha, gi, verified, timing,
                   frames, mismatch, speedup, verdict, sat>>

\* line 85: srand(42); the sequence rand() then returns is the C library's.
Seed ==
    /\ call = <<>>
    /\ pc = "L85"
    /\ pc' = "L86"
    /\ gi' = 0
    /\ UNCHANGED <<call, heap, mem, test_size, alpha, verified, timing,
                   frames, output, sat>>

\* lines 86-90: one iteration of the input loop.
GenStep ==
    /\ call = <<>>
    /\ pc = "L86"
    /\ gi < test_size
    /\ \E ra \in RandOut, rb \in RandOut :
         mem' = [mem EXCEPT !["a"][gi + 1] = RandToQ15(ra),
                            !["b"][gi + 1] = RandToQ15(rb)]
    /\ gi' = gi + 1
    /\ UNCHANGED <<pc, call, heap, test_size, alpha, verified, timing,
                   frames, output, sat>>

\* line 86, loop exit; lines 92-95 print the banner.
GenDone ==
    /\ call = <<>>
    /\ pc = "L86"
    /\ gi >= test_size
    /\ pc' = "L98"
    /\ UNCHANGED <<call, heap, mem, test_size, alpha, gi, verified, timing,
                   frames, output, sat>>

\* rdcycle64 (lines 55-64): the counter after t more cycles, or 0.  The
\* counter stays far below 2^64 here, so the unsigned subtractions of lines
\* 100 and 105 do not wrap.
rdcycle64(t) == IF has_counter THEN cycle + t ELSE 0

Tick(t) == cycle' = IF has_counter THEN cycle + t ELSE cycle

\* lines 98 and 103: start = rdcycle64();
ReadStart ==
    /\ call = <<>>
    /\ pc \in {"L98", "L103"}
    /\ \E t \in Ticks :
         /\ start' = rdcycle64(t)
         /\ Tick(t)
    /\ pc' = IF pc = "L98" THEN "L99" ELSE "L104"
    /\ UNCHANGED <<call, heap, mem, has_counter, test_size, alpha, gi,
                   baseline_cycles, vector_cycles, verified, frames, output,
                   sat>>

\* line 99: q15_axpy_baseline(a, b, baseline_out, test_size, alpha);
CallBaseline ==
    /\ call = <<>>
    /\ pc = "L99"
    /\ call' = <<"q15_axpy_baseline">>
    /\ axpy' = [a |-> "a", b |-> "b", y |-> "baseline_out", n |-> test_size,
                alpha |-> alpha, i |-> 0, product |-> 0, scaled |-> 0,
                sum |-> 0]
    /\ UNCHANGED <<pc, heap, mem, test_size, alpha, gi, verified, timing,
                   vec, vfy, output, sat>>

AxpyStoreNext(m, fr, v) == [m EXCEPT ![fr.y][fr.i + 2] = v]

\* line 30: y[i] = ...;
AxpyStore(m, fr, v) == [m EXCEPT ![fr.y][fr.i + 1] = v]

\* lines 25-31: one iteration of the kernel loop.
AxpyStep ==
    /\ call # <<>>
    /\ Head(call) = "q15_axpy_baseline"
    /\ axpy.i < axpy.n
    /\ LET r == AxpyBody(mem[axpy.a][axpy.i + 1], mem[axpy.b][axpy.i + 1],
                         axpy.alpha)
       IN  /\ mem' = AxpyStore(mem, axpy, r.out)
           /\ axpy' = [axpy EXCEPT !.product = r.product,
                                   !.scaled = r.scaled,
                                   !.sum = r.sum,
                                   !.i = axpy.i + 1]
    /\ UNCHANGED <<pc, call, heap, test_size, alpha, gi, verified, timing,
                   vec, vfy, output, sat>>

\* The statement after the call at main's line.
AfterCall(line) == IF line = "L99" THEN "L100" ELSE "L105"

\* line 25, loop exit, and the return of line 32.
AxpyReturn ==
    /\ call # <<>>
    /\ Head(call) = "q15_axpy_baseline"
    /\ axpy.i >= axpy.n
    /\ call' = Tail(call)
    /\ pc' = IF Tail(call) = <<>> THEN AfterCall(pc) ELSE pc
    /\ UNCHANGED <<heap, mem, test_size, alpha, gi, verified, timing,
                   frames, output, sat>>

\* lines 100 and 105: the cycles elapsed since start.
ReadStop ==
    /\ call = <<>>
    /\ pc \in {"L100", "L105"}
    /\ \E t \in Ticks :
         /\ IF pc = "L100"
            THEN /\ baseline_cycles' = rdcycle64(t) - start
                 /\ UNCHANGED vector_cycles
            ELSE /\ vector_cycles' = rdcycle64(t) - start
                 /\ UNCHANGED baseline_cycles
         /\ Tick(t)
    /\ pc' = IF pc = "L100" THEN "L103" ELSE "L108"
    /\ UNCHANGED <<call, heap, mem, has_counter, test_size, alpha, gi, start,
                   verified, frames, output, sat>>

\* line 104: q15_axpy_vector(a, b, vector_out, test_size, alpha);
CallVector ==
    /\ call = <<>>
    /\ pc = "L104"
    /\ call' = <<"q15_axpy_vector:37">>
    /\ vec' = [a |-> "a", b |-> "b", y |-> "vector_out", n |-> test_size,
               alpha |-> alpha]
    /\ UNCHANGED <<pc, heap, mem, test_size, alpha, gi, verified, timing,
                   axpy, vfy, output, sat>>

q15_axpy_vector_short ==
    /\ call # <<>>
    /\ Head(call) = "q15_axpy_vector:37"
    /\ call' = <<"q15_axpy_baseline", "q15_axpy_vector:38">>
    /\ axpy' = [a |-> vec.a, b |-> vec.b, y |-> vec.y,
                n |-> IF vec.n > 0 THEN vec.n - 1 ELSE 0,
                alpha |-> vec.alpha, i |-> 0, product |-> 0, scaled |-> 0,
                sum |-> 0]
    /\ UNCHANGED <<pc, heap, mem, test_size, alpha, gi, verified, timing,
                   vec, vfy, output, sat>>

\* line 37: q15_axpy_baseline(a, b, y, n, alpha);
q15_axpy_vector ==
    /\ call # <<>>
    /\ Head(call) = "q15_axpy_vector:37"
    /\ call' = <<"q15_axpy_baseline", "q15_axpy_vector:38">>
    /\ axpy' = [a |-> vec.a, b |-> vec.b, y |-> vec.y, n |-> vec.n,
                alpha |-> vec.alpha, i |-> 0, product |-> 0, scaled |-> 0,
                sum |-> 0]
    /\ UNCHANGED <<pc, heap, mem, test_size, alpha, gi, verified, timing,
                   vec, vfy, output, sat>>

\* line 38: q15_axpy_vector returns.
VectorReturn ==
    /\ call # <<>>
    /\ Head(call) = "q15_axpy_vector:38"
    /\ call' = Tail(call)
    /\ pc' = AfterCall(pc)
    /\ UNCHANGED <<heap, mem, test_size, alpha, gi, verified, timing,
                   frames, output, sat>>

\* The first index verify_identical compares (line 43: size_t i = 0).
VerifyFirstSkip == 0 + 1

VerifyFirst == 0

\* line 108: verify_identical(baseline_out, vector_out, test_size);
CallVerify ==
    /\ call = <<>>
    /\ pc = "L108"
    /\ call' = <<"verify_identical">>
    /\ vfy' = [ref |-> "baseline_out", test |-> "vector_out",
               n |-> test_size, i |-> VerifyFirst]
    /\ UNCHANGED <<pc, heap, mem, test_size, alpha, gi, verified, timing,
                   vec, axpy, output, sat>>

\* lines 43-50: one iteration of the comparison loop; a mismatch is printed
\* and ends the call with 0.
VerifyStep ==
    /\ call # <<>>
    /\ Head(call) = "verify_identical"
    /\ vfy.i < vfy.n
    /\ LET r == mem[vfy.ref][vfy.i + 1]
           t == mem[vfy.test][vfy.i + 1]
       IN  IF r # t
           THEN /\ mismatch' = Append(mismatch, <<vfy.i, r, t>>)
                /\ verified' = 0
                /\ call' = Tail(call)
                /\ pc' = "L111"
                /\ UNCHANGED vfy
           ELSE /\ vfy' = [vfy EXCEPT !.i = vfy.i + 1]
                /\ UNCHANGED <<mismatch, verified, call, pc>>
    /\ UNCHANGED <<heap, mem, test_size, alpha, gi, timing, vec, axpy,
                   alloc_msg, speedup, verdict, exit_code, sat>>

\* line 43, loop exit, and line 51: return 1.
VerifyReturn ==
    /\ call # <<>>
    /\ Head(call) = "verify_identical"
    /\ vfy.i >= vfy.n
    /\ verified' = 1
    /\ call' = Tail(call)
    /\ pc' = "L111"
    /\ UNCHANGED <<heap, mem, test_size, alpha, gi, timing, frames, output,
                   sat>>

\* lines 111-119: the results table, with (double)baseline_cycles /
\* vector_cycles computed unconditionally, and the verification line.
PrintResults ==
    /\ call = <<>>
    /\ pc = "L111"
    /\ speedup' = [performed |-> TRUE, dividend |-> baseline_cycles,
                   divisor |-> vector_cycles]
    /\ verdict' = IF verified # 0 THEN "PASSED (bit-exact)" ELSE "FAILED"
    /\ pc' = "L121"
    /\ UNCHANGED <<call, heap, mem, test_size, alpha, gi, verified, timing,
                   frames, mismatch, alloc_msg, exit_code, sat>>

\* free(p): a null pointer is left alone, a live buffer is released.
Free(status) ==
    IF status = "live" THEN "freed"
    ELSE IF status = "null" THEN "null"
    ELSE "double-free"

\* line 121: free(a); free(b); free(baseline_out); free(vector_out);
FreeAll ==
    /\ call = <<>>
    /\ pc = "L121"
    /\ heap' = [x \in BufferNames |-> Free(heap[x])]
    /\ pc' = "L122"
    /\ UNCHANGED <<call, mem, test_size, alpha, gi, verified, timing, frames,
                   output, sat>>

ExitStatusSwapped(v) == IF v # 0 THEN 1 ELSE 0

\* verified ? 0 : 1
ExitStatus(v) == IF v # 0 THEN 0 ELSE 1

\* line 122
Return ==
    /\ call = <<>>
    /\ pc = "L122"
    /\ exit_code' = ExitStatus(verified)
    /\ pc' = "exited"
    /\ UNCHANGED <<call, heap, mem, test_size, alpha, gi, verified, timing,
                   frames, mismatch, alloc_msg, speedup, verdict, sat>>

\* lines 98-105: the two timed kernel invocations.
Benchmark ==
    \/ ReadStart
    \/ CallBaseline
    \/ AxpyStep
    \/ AxpyReturn
    \/ ReadStop
    \/ CallVector
    \/ q15_axpy_vector
    \/ VectorReturn

\* line 108: the verification call.
Verification ==
    \/ CallVerify
    \/ VerifyStep
    \/ VerifyReturn

Next ==
    \/ Alloc
    \/ AllocCheck
    \/ Seed
    \/ GenStep
    \/ GenDone
    \/ Benchmark
    \/ Verification
    \/ PrintResults
    \/ FreeAll
    \/ Return

\* The program: main from its first statement.
Spec == Init /\ [][Next]_vars

\* ------------------------------------------- the kernels on arbitrary inputs

\* Q15 values the kernel specification draws alpha, a[i] and b[i] from.
AlphaVals == {Q15_MIN, -1, 0, ALPHA, Q15_MAX}

AVals == {Q15_MIN, 0, Q15_MAX}

BVals == {Q15_MIN, 1, Q15_MAX}

\* main at line 98, with any n <= MaxN, any alpha and any inputs of length n;
\* the output buffers have capacity MaxN and were never written.
InitKernel ==
    /\ Idle
    /\ pc = "L98"
    /\ heap = [x \in BufferNames |-> "live"]
    /\ has_counter = FALSE
    /\ cycle = 0
    /\ test_size \in 0..MaxN
    /\ alpha \in AlphaVals
    /\ \E va \in [1..test_size -> AVals], vb \in [1..test_size -> BVals] :
         mem = [x \in BufferNames |->
                  IF x = "a" THEN va ELSE IF x = "b" THEN vb ELSE Fresh(MaxN)]

\* Lines 98-105 of main from any valid input.
SpecKernel == InitKernel /\ [][Benchmark]_vars

\* ------------------------------------------ verify_identical on any buffers

VfyVals == {-1, 0, Q15_MAX}

\* main at line 108, with any two output buffers and any n <= MaxN.
InitVerify ==
    /\ Idle
    /\ pc = "L108"
    /\ heap = [x \in BufferNames |-> "live"]
    /\ has_counter = FALSE
    /\ cycle = 0
    /\ test_size \in 0..MaxN
    /\ alpha = ALPHA
    /\ \E r \in [1..MaxN -> VfyVals], t \in [1..MaxN -> VfyVals] :
         mem = [x \in BufferNames |->
                  IF x = "baseline_out" THEN r
                  ELSE IF x = "vector_out" THEN t ELSE Fresh(MaxN)]

SpecVerify == InitVerify /\ [][Verification]_vars

\* ------------------------------------------- saturate_q15 on 32-bit inputs

\* The points around which saturate_q15 is tried.
SatCentres == {-98304, -65536, Q15_MIN, 0, Q15_MAX, 65536, 98304}

SatInputs ==
    UNION {{c + d : d \in (-SatSpan)..SatSpan} : c \in SatCentres}
    \cup {INT32_MIN + d : d \in 0..SatSpan}
    \cup {INT32_MAX - d : d \in 0..SatSpan}

InitSat ==
    /\ Quiet
    /\ call = <<"saturate_q15">>
    /\ pc = "L30"
    /\ heap = [x \in BufferNames |-> "none"]
    /\ mem = [x \in BufferNames |-> <<>>]
    /\ has_counter = FALSE
    /\ cycle = 0
    /\ test_size = 0
    /\ alpha = ALPHA
    /\ value \in SatInputs

\* lines 16-21: one call of saturate_q15.
SaturateCall ==
    /\ call = <<"saturate_q15">>
    /\ sat_ret' = saturate_q15(value)
    /\ call' = <<>>
    /\ UNCHANGED <<pc, heap, mem, test_size, alpha, gi, verified, timing,
                   frames, output, value>>

SpecSat == InitSat /\ [][SaturateCall]_vars

\* ------------------------------------------------------------------ claims

ClampQ15(v) == IF v > 32767 THEN 32767 ELSE IF v < -32768 THEN -32768 ELSE v

\* The element the reference formula gives at 1-based position j.
Reference(j) ==
    ClampQ15(mem["a"][j] + ((alpha * mem["b"][j]) \div 32768))

BaselineReturned == pc \in {"L100", "L103", "L104", "L105", "L108"}

VectorReturned == pc \in {"L105", "L108"}

BaselineActive == call # <<>> /\ Head(call) = "q15_axpy_baseline"

\* C1: every element q15_axpy_baseline has written, during the loop and
\* after its return, is clamp(a[i] + floor(alpha * b[i] / 32768)) with the
\* product and the sum at full precision and the shift rounding toward
\* negative infinity.
C1_BaselineFormula ==
    /\ BaselineActive =>
         \A j \in 1..axpy.i : mem[axpy.y][j] = Reference(j)
    /\ BaselineReturned =>
         \A j \in 1..test_size : mem["baseline_out"][j] = Reference(j)

\* C1 witness: a = 0, alpha = -1, b = 1 has a negative product that is no
\* multiple of 32768, and the stored element is -1, not 0.
C1_Witness ==
    /\ pc = "L100"
    /\ test_size >= 1
    /\ alpha = -1
    /\ mem["a"][1] = 0
    /\ mem["b"][1] = 1
    /\ mem["baseline_out"][1] = -1

\* C2: once q15_axpy_vector has returned, vector_out equals baseline_out at
\* every index below n.
C2_VectorEqualsBaseline ==
    VectorReturned =>
        \A j \in 1..test_size : mem["vector_out"][j] = mem["baseline_out"][j]

\* C2 witness: both kernels ran over MaxN elements, one saturated high and
\* one saturated low.
C2_Witness ==
    /\ pc = "L108"
    /\ test_size = MaxN
    /\ \E j, k \in 1..test_size :
         /\ mem["vector_out"][j] = Q15_MAX
         /\ mem["a"][j] + ((alpha * mem["b"][j]) \div 32768) > Q15_MAX
         /\ mem["vector_out"][k] = Q15_MIN
         /\ mem["a"][k] + ((alpha * mem["b"][k]) \div 32768) < Q15_MIN

SatReturned == pc = "L30" /\ call = <<>>

\* C3: saturate_q15 returns 32767 above 32767, -32768 below -32768 and the
\* value itself in between, so its result is always a Q15 value.
C3_SaturateClamps ==
    SatReturned =>
        /\ value > 32767 => sat_ret = 32767
        /\ value < -32768 => sat_ret = -32768
        /\ (value >= -32768 /\ value <= 32767) => sat_ret = value
        /\ sat_ret >= -32768
        /\ sat_ret <= 32767

\* C3 witness: the most negative 32-bit input was clamped.
C3_Witness ==
    /\ SatReturned
    /\ value = INT32_MIN
    /\ sat_ret = Q15_MIN

AllAllocated == \A x \in BufferNames : heap[x] \in {"live", "freed"}

\* The buffer contents last stored are kept after free, so that the
\* elements verify_identical compared can be named at exit.
OutputsEqual ==
    \A j \in 1..test_size : mem["baseline_out"][j] = mem["vector_out"][j]

\* C4: main exits with 0 or 1 only, and with 0 exactly when all four
\* buffers were allocated and the two output vectors agree everywhere.
C4_ExitCode ==
    /\ pc # "exited" => exit_code = -1
    /\ pc = "exited" =>
         /\ exit_code \in {0, 1}
         /\ exit_code = 0 <=> (AllAllocated /\ OutputsEqual)

\* C4 witness: a run that allocated, verified and exited with 0.
C4_Witness ==
    /\ pc = "exited"
    /\ exit_code = 0
    /\ verified = 1
    /\ verdict = "PASSED (bit-exact)"

Mismatches ==
    {j \in 1..test_size : mem["baseline_out"][j] # mem["vector_out"][j]}

FirstMismatch == CHOOSE j \in Mismatches : \A k \in Mismatches : j <= k

VerifyDone == pc = "L111"

\* C5: verify_identical returns 1 exactly when the buffers agree at every
\* index below n; when it returns 0 it printed one line, for the smallest
\* mismatching index, with both values.
C5_VerifyIdentical ==
    VerifyDone =>
        /\ verified \in {0, 1}
        /\ verified = 1 <=> Mismatches = {}
        /\ verified = 1 => mismatch = <<>>
        /\ verified = 0 =>
             mismatch = << <<FirstMismatch - 1,
                             mem["baseline_out"][FirstMismatch],
                             mem["vector_out"][FirstMismatch]>> >>

\* C5 witness: the buffers agree at index 0 and differ at indices 1 and 2,
\* and index 1 was reported.
C5_Witness ==
    /\ VerifyDone
    /\ test_size >= 3
    /\ Mismatches = {2, 3}
    /\ verified = 0
    /\ Len(mismatch) = 1
    /\ mismatch[1][1] = 1

\* C6: when main has exited, every buffer that was allocated has been
\* released, and released once.
C6_AllReleased ==
    pc = "exited" => \A x \in BufferNames : heap[x] \in {"null", "freed"}

\* C7: the division of the speedup column is never performed with a zero
\* divisor.
C7_NoZeroDivisor == speedup.performed => speedup.divisor # 0

SomeNull == \E x \in BufferNames : heap[x] = "null"

InputsGenerated ==
    \A x \in {"a", "b"} : \A j \in 1..test_size : mem[x][j] # Indeterminate

Untouched ==
    /\ \A x \in BufferNames : mem[x] \in {<<>>, Fresh(test_size)}
    /\ vec = NoArgs
    /\ axpy = NoAxpy
    /\ vfy = NoVfy
    /\ verified = -1

\* C8: a failed allocation ends main at the check with exit code 1 and the
\* message, no kernel or verification call having been made and no buffer
\* written; and a call is active only with all four buffers live and the
\* inputs generated.
C8_AllocFailureAborts ==
    /\ (SomeNull /\ pc \notin {"L74", "L75", "L76", "L78"}) =>
         /\ pc = "exited"
         /\ exit_code = 1
         /\ alloc_msg
         /\ Untouched
    /\ call # <<>> =>
         /\ \A x \in BufferNames : heap[x] = "live"
         /\ InputsGenerated

\* C8 witness: the second allocation failed after the first succeeded and
\* main has exited.
C8_Witness ==
    /\ pc = "exited"
    /\ heap["a"] = "live"
    /\ heap["b"] = "null"
    /\ exit_code = 1

InInt32(x) == x >= INT32_MIN /\ x <= INT32_MAX

\* C9: after each iteration the locals hold the exact product, shifted
\* value and sum, each inside the 32-bit signed range (product at most
\* 2^30, scaled at most 32768).
C9_IntermediatesFit ==
    (BaselineActive /\ axpy.i >= 1) =>
        LET ai == mem[axpy.a][axpy.i]
            bi == mem[axpy.b][axpy.i]
        IN  /\ axpy.product = axpy.alpha * bi
            /\ axpy.product >= -(32767 * 32768)
            /\ axpy.product <= 32768 * 32768
            /\ axpy.scaled >= -32767
            /\ axpy.scaled <= 32768
            /\ axpy.sum = ai + axpy.scaled
            /\ InInt32(axpy.product)
            /\ InInt32(axpy.scaled)
            /\ InInt32(axpy.sum)

\* C9 witness: alpha = b[i] = -32768, product 2^30, scaled 32768.
C9_Witness ==
    /\ BaselineActive
    /\ axpy.i >= 1
    /\ axpy.alpha = Q15_MIN
    /\ axpy.product = 32768 * 32768
    /\ axpy.scaled = 32768

\* The output buffer main hands to the kernel it calls at the current line.
Handed == IF pc = "L99" THEN "baseline_out" ELSE "vector_out"

\* C10: a step changes a buffer cell only inside a kernel invocation, only
\* in the output buffer main handed to it and only below index n; a and b
\* never change, the output of a kernel is neither of its inputs, and the
\* vector invocation leaves baseline_out as it was.
C10_KernelFrame ==
    [][ /\ mem'["a"] = mem["a"]
        /\ BaselineActive =>
             /\ axpy.y = Handed
             /\ axpy.y \notin {axpy.a, axpy.b}
        /\ mem'["b"] = mem["b"]
        /\ \A x \in {"baseline_out", "vector_out"} :
             \A j \in 1..MaxN :
               mem'[x][j] # mem[x][j] =>
                 /\ BaselineActive
                 /\ x = Handed
                 /\ j <= test_size
        /\ pc \in {"L104", "L105"} =>
             mem'["baseline_out"] = mem["baseline_out"] ]_vars

\* C10 witness: both kernels ran with n = 1 on buffers of larger capacity;
\* element 0 of each output is written, the next cell is not.
C10_Witness ==
    /\ pc = "L108"
    /\ test_size = 1
    /\ MaxN > 1
    /\ mem["baseline_out"][1] # Indeterminate
    /\ mem["vector_out"][1] # Indeterminate
    /\ mem["baseline_out"][2] = Indeterminate
    /\ mem["vector_out"][2] = Indeterminate

====
